---------------------------- MODULE Spec2Model ----------------------------
(***************************************************************************)
(* A model of convert_levels.py: the per-level converter convert_level     *)
(* (a pure function from one level record to the lines of a .dzn file, or  *)
(* to a raised exception) and the batch loop of main, which walks the      *)
(* sorted level names of the input document and writes one file per level. *)
(*                                                                         *)
(* Conventions.  Python's None is the empty tuple.  A grid is a sequence   *)
(* of rows, each a sequence of integers; a cell position is a pair <<r, c>>*)
(* of 0-based indices, as enumerate() yields them, and the converter adds  *)
(* one to each when it emits a coordinate.  A piece token is the pair      *)
(* <<head, tail>> of the text up to and including its first "_" and the    *)
(* rest ("SWITCH_L_R_D" is <<"SWITCH_", "L_R_D">>, "ROCK" is <<"ROCK", "">>*)
(* ), so that startswith("SWITCH_") and replace("SWITCH_", ...) are a test *)
(* and a rewrite of the head.  A level name is a sequence of one-character *)
(* strings.  A text file is the sequence of its lines.                     *)
(***************************************************************************)
EXTENDS Integers, Sequences, FiniteSets, TLC

VARIABLES
    level_name,        \* convert_level: the argument of the last call
    level_data,        \* convert_level: the level record of the last call
    ret,               \* convert_level: outcome of the last call
    levels,            \* main: the loaded document, level name -> level record
    force,             \* main: args.force
    level_prefix,      \* main: args.level_prefix (<<>> when not given)
    fs,                \* the files under the output directory: path -> lines
    fs0,               \* the files as they were before the run
    dirs,              \* the world directories that exist under the output directory
    order,             \* main: the names of sorted(levels.items()), the list the loop walks
    idx,               \* main: position of the for loop in that list
    converted,         \* main: counter
    skipped_prefix,    \* main: counter
    skipped_existing,  \* main: counter
    stderr,            \* the per-level error reports printed so far
    outcome,           \* history: how each level name was handled
    pc                 \* main: "loop", "done"; "call" when convert_level is called alone

vars == <<level_name, level_data, ret, levels, force, level_prefix, fs, fs0, dirs,
          order, idx, converted, skipped_prefix, skipped_existing, stderr, outcome, pc>>

None == <<>>

-----------------------------------------------------------------------------
(* The translation tables.                                                 *)

BoardCodes == (0..22) \cup {29, 30, 31, 34, 35, 36, 37}

BOARD_TO_TRACK == [v \in BoardCodes |->
    CASE v = 0 -> None
      [] v \in {1, 3, 21, 22, 29} -> <<"STRAIGHT_", "RL">>
      [] v \in {2, 30, 31} -> <<"STRAIGHT_", "TD">>
      [] v \in {4, 34, 35, 36, 37} -> <<"ROCK", "">>
      [] v = 5 -> <<"CORNER_", "DR">>
      [] v = 6 -> <<"CORNER_", "DL">>
      [] v = 7 -> <<"CORNER_", "TR">>
      [] v = 8 -> <<"CORNER_", "TL">>
      [] v \in {9, 11} -> <<"SWITCH_", "L_R_D">>
      [] v = 10 -> <<"SWITCH_", "T_D_R">>
      [] v = 12 -> <<"SWITCH_", "T_D_L">>
      [] v = 13 -> <<"SWITCH_", "L_R_T">>
      [] v = 14 -> <<"SWITCH_", "D_T_R">>
      [] v = 15 -> <<"SWITCH_", "R_L_T">>
      [] v = 16 -> <<"SWITCH_", "D_T_L">>
      [] v = 17 -> <<"TUNNEL_", "L">>
      [] v = 18 -> <<"TUNNEL_", "R">>
      [] v = 19 -> <<"TUNNEL_", "D">>
      [] v = 20 -> <<"TUNNEL_", "T">>]

MOD_SWITCH == 1
MOD_TUNNEL == 2
MOD_CLOSED_GATE == 3
MOD_OPEN_GATE == 4
MOD_SWAPPING_TRACK == 5
MOD_STATION == 6
MOD_SWITCH_RAIL == 7
MOD_STARTING_CAR == 10

DIRECTION_MAP == [d \in {"RIGHT", "LEFT", "UP", "DOWN"} |->
    IF d = "UP" THEN "TOP" ELSE d]

TUNNEL_DIR == [v \in 17..20 |->
    CASE v = 17 -> "LEFT" [] v = 18 -> "RIGHT" [] v = 19 -> "DOWN" [] v = 20 -> "TOP"]

\* The board code of the ending track, the target cell.
ENDING_TRACK == 3

-----------------------------------------------------------------------------
(* Grid scans: the nested enumerate() loops.                               *)

\* The positions of row r, left to right.
RowOf(grid, r) == [k \in 1..Len(grid[r + 1]) |-> <<r, k - 1>>]

RECURSIVE ScanFrom(_, _)
ScanFrom(grid, r) ==
    IF r >= Len(grid) THEN <<>> ELSE RowOf(grid, r) \o ScanFrom(grid, r + 1)

\* Every position of the grid in the order the nested loops visit them.
Scan(grid) == ScanFrom(grid, 0)

\* grid[r][c]
At(grid, p) == grid[p[1] + 1][p[2] + 1]

\* (r + 1, c + 1): the 1-based coordinate of a position.
OneBased(p) == <<p[1] + 1, p[2] + 1>>

\* dict.get(key): None for a missing key.
Get(table, key) == IF key \in DOMAIN table THEN table[key] ELSE None

-----------------------------------------------------------------------------
(* convert_level, section by section.                                      *)

\* level_data["board"] ... level_data["tracks"]: a missing key raises KeyError.
MissingFields(data) == {f \in {"board", "mods", "mod_nums", "cars", "tracks"} : f \notin DOMAIN data}

\* --- Find Target Cell ---
\* A scan that does not stop at the first ending track.
FindTargetLast(board) ==
    LET hits == SelectSeq(Scan(board), LAMBDA p : At(board, p) = ENDING_TRACK)
    IN  IF hits = <<>> THEN None ELSE OneBased(hits[Len(hits)])

\* A scan that falls back on the first cell.
FindTargetDefault(board) ==
    LET hits == SelectSeq(Scan(board), LAMBDA p : At(board, p) = ENDING_TRACK)
    IN  IF hits = <<>> THEN <<1, 1>> ELSE OneBased(Head(hits))

\* The loops stop at the first cell whose value is the ending track; None
\* when there is none (`if not target: raise ValueError`).
find_target(board) ==
    LET hits == SelectSeq(Scan(board), LAMBDA p : At(board, p) = ENDING_TRACK)
    IN  IF hits = <<>> THEN None ELSE OneBased(Head(hits))

\* --- Collect Train and Decoy Information ---
\* DIRECTION_MAP[car["direction"]] is looked up for NORMAL and DECOY cars only.
CarsRaise(cars) ==
    \E k \in 1..Len(cars) :
        /\ cars[k].type \in {"NORMAL", "DECOY"}
        /\ cars[k].direction \notin DOMAIN DIRECTION_MAP

CarTuple(car) == <<car.pos[1] + 1, car.pos[2] + 1, DIRECTION_MAP[car.direction]>>

CarsOfType(cars, type) ==
    LET sel == SelectSeq(cars, LAMBDA car : car.type = type)
    IN  [k \in 1..Len(sel) |-> CarTuple(sel[k])]

\* --- Process Grid for Initial Pieces and Switches ---
\* The cell is a stateful switch: its modifier is swapping-track or
\* switch-rail and its token starts with "SWITCH_".
IsStatefulSwitch(board, mods, p) ==
    LET t == Get(BOARD_TO_TRACK, At(board, p))
    IN  /\ At(mods, p) \in {MOD_SWAPPING_TRACK, MOD_SWITCH_RAIL}
        /\ t # None
        /\ t[1] = "SWITCH_"

\* The token the cell is placed with.
TrackType(board, mods, p) ==
    LET t == Get(BOARD_TO_TRACK, At(board, p))
    IN  IF IsStatefulSwitch(board, mods, p)
        THEN IF At(mods, p) = MOD_SWAPPING_TRACK
             THEN <<"DSWITCH_", t[2]>>
             ELSE <<"ESWITCH_", t[2]>>
        ELSE t

\* A placement that does not leave the tunnel cells out.
IsPlacedTunnelsToo(board, mods, p) == Get(BOARD_TO_TRACK, At(board, p)) # None

\* The cell gets an INIT_POS entry: neither `continue` is taken.
IsPlaced(board, mods, p) ==
    /\ At(mods, p) # MOD_TUNNEL
    /\ Get(BOARD_TO_TRACK, At(board, p)) # None

\* A registration that does not look at the number.
IsRegisteredAnyId(board, mods, mod_nums, p) ==
    /\ IsPlaced(board, mods, p)
    /\ IsStatefulSwitch(board, mods, p)

\* The cell gets a DSWITCHES entry.
IsRegistered(board, mods, mod_nums, p) ==
    /\ IsPlaced(board, mods, p)
    /\ IsStatefulSwitch(board, mods, p)
    /\ At(mod_nums, p) > 0

InitPos(board, mods) ==
    LET sel == SelectSeq(Scan(board), LAMBDA p : IsPlaced(board, mods, p))
    IN  [k \in 1..Len(sel) |->
            <<sel[k][1] + 1, sel[k][2] + 1, TrackType(board, mods, sel[k])>>]

Dswitches(board, mods, mod_nums) ==
    LET sel == SelectSeq(Scan(board), LAMBDA p : IsRegistered(board, mods, mod_nums, p))
    IN  [k \in 1..Len(sel) |-> <<sel[k][1] + 1, sel[k][2] + 1, At(mod_nums, sel[k])>>]

\* --- Collect and Pair Tunnels ---
\* All tunnel endpoints in scan order.
TunnelEndpoints(board, mods) ==
    SelectSeq(Scan(board),
              LAMBDA p : At(mods, p) = MOD_TUNNEL /\ At(board, p) \in DOMAIN TUNNEL_DIR)

\* tunnel_endpoints[tunnel_num]: the endpoints of one group, in scan order.
EndpointsOf(board, mods, mod_nums, tunnel_num) ==
    SelectSeq(TunnelEndpoints(board, mods), LAMBDA p : At(mod_nums, p) = tunnel_num)

\* sorted(keys): ascending.
RECURSIVE Sorted(_)
Sorted(S) ==
    IF S = {} THEN <<>>
    ELSE LET m == CHOOSE x \in S : \A y \in S : x <= y
         IN  <<m>> \o Sorted(S \ {m})

\* The record of a two-endpoint group: each position with the exit direction
\* of its own board code.
PairRecord(board, endpoints) ==
    <<endpoints[1][1] + 1, endpoints[1][2] + 1, TUNNEL_DIR[At(board, endpoints[1])],
      endpoints[2][1] + 1, endpoints[2][2] + 1, TUNNEL_DIR[At(board, endpoints[2])]>>

\* A test that lets the larger groups through.
IsPairAtLeastTwo(endpoints) == Len(endpoints) >= 2

\* len(endpoints) == 2
IsPair(endpoints) == Len(endpoints) = 2

RECURSIVE PairsOver(_, _, _, _)
PairsOver(board, mods, mod_nums, keys) ==
    IF keys = <<>> THEN <<>>
    ELSE LET endpoints == EndpointsOf(board, mods, mod_nums, Head(keys))
         IN  (IF IsPair(endpoints) THEN <<PairRecord(board, endpoints)>> ELSE <<>>)
             \o PairsOver(board, mods, mod_nums, Tail(keys))

TunnelPairs(board, mods, mod_nums) ==
    LET eps  == TunnelEndpoints(board, mods)
        keys == {At(mod_nums, eps[k]) : k \in 1..Len(eps)}
    IN  PairsOver(board, mods, mod_nums, Sorted(keys))

\* --- Collect Gates and Activations ---
\* A flag that is never set.
IsOpenAlwaysFalse(mod_val) == "false"

\* str(mod_val == MOD_OPEN_GATE).lower()
IsOpen(mod_val) == IF mod_val = MOD_OPEN_GATE THEN "true" ELSE "false"

Gates(mods, mod_nums) ==
    LET sel == SelectSeq(Scan(mods),
                         LAMBDA p : At(mods, p) \in {MOD_CLOSED_GATE, MOD_OPEN_GATE})
    IN  [k \in 1..Len(sel) |->
            <<sel[k][1] + 1, sel[k][2] + 1, At(mod_nums, sel[k]), IsOpen(At(mods, sel[k]))>>]

Activations(mods, mod_nums) ==
    LET sel == SelectSeq(Scan(mods),
                         LAMBDA p : At(mods, p) = MOD_SWITCH /\ At(mod_nums, p) > 0)
    IN  [k \in 1..Len(sel) |-> <<sel[k][1] + 1, sel[k][2] + 1, At(mod_nums, sel[k])>>]

\* --- Collect Stations ---
Stations(mods, mod_nums) ==
    LET sel == SelectSeq(Scan(mods), LAMBDA p : At(mods, p) = MOD_STATION)
    IN  [k \in 1..Len(sel) |-> <<sel[k][1] + 1, sel[k][2] + 1, At(mod_nums, sel[k]) + 1>>]

\* --- Assemble .dzn Content ---
RECURSIVE Join(_, _)
\* sep.join(strs)
Join(strs, sep) ==
    IF strs = <<>> THEN ""
    ELSE IF Len(strs) = 1 THEN strs[1]
    ELSE strs[1] \o sep \o Join(Tail(strs), sep)

\* The token's text.
TokenText(t) == t[1] \o t[2]

\* f"({r},{c},{d})" with d a direction or a piece token's text
FmtNamed(r, c, d) == "(" \o ToString(r) \o "," \o ToString(c) \o "," \o d \o ")"

\* f"({r},{c},{num})"
FmtNum(r, c, num) == "(" \o ToString(r) \o "," \o ToString(c) \o "," \o ToString(num) \o ")"

\* f"({r},{c},{num},{is_open})"
FmtGate(g) ==
    "(" \o ToString(g[1]) \o "," \o ToString(g[2]) \o "," \o ToString(g[3]) \o "," \o g[4] \o ")"

\* f"  ({r1}, {c1}, {entry}, {r2}, {c2}, {exit_dir}),"
FmtTunnel(t) ==
    "  (" \o ToString(t[1]) \o ", " \o ToString(t[2]) \o ", " \o t[3] \o ", "
          \o ToString(t[4]) \o ", " \o ToString(t[5]) \o ", " \o t[6] \o "),"

\* TRAINS / DECOYS: one line.
CarsLine(name, cars) ==
    IF cars # <<>>
    THEN name \o "=[" \o Join([k \in 1..Len(cars) |-> FmtNamed(cars[k][1], cars[k][2], cars[k][3])], ",") \o "];"
    ELSE name \o "=[];"

\* A list declaration: one line per entry between "NAME=[" and "];".
Block(name, entry_lines) ==
    IF entry_lines # <<>>
    THEN <<name \o "=[">> \o entry_lines \o <<"];">>
    ELSE <<name \o "=[];">>

DznLines(W, H, tracks, target, trains, decoys, init_pos, tunnel_pairs, gates, activations, dswitches, stations) ==
    << "W=" \o ToString(W) \o ";",
       "H=" \o ToString(H) \o ";",
       "",
       "MAX_TIME=W*H;",
       "MAX_TRACKS=" \o ToString(tracks) \o ";",
       "",
       "TARGET=(" \o ToString(target[1]) \o "," \o ToString(target[2]) \o ");",
       "" >>
    \o << CarsLine("TRAINS", trains), CarsLine("DECOYS", decoys), "" >>
    \o Block("INIT_POS",
             [k \in 1..Len(init_pos) |->
                FmtNamed(init_pos[k][1], init_pos[k][2], TokenText(init_pos[k][3])) \o ","])
    \o Block("TUNNEL_PAIRS", [k \in 1..Len(tunnel_pairs) |-> FmtTunnel(tunnel_pairs[k])])
    \o << "" >>
    \o Block("GATES", [k \in 1..Len(gates) |-> FmtGate(gates[k]) \o ","])
    \o Block("ACTIVATIONS",
             [k \in 1..Len(activations) |->
                FmtNum(activations[k][1], activations[k][2], activations[k][3]) \o ","])
    \o << "" >>
    \o Block("DSWITCHES",
             [k \in 1..Len(dswitches) |->
                FmtNum(dswitches[k][1], dswitches[k][2], dswitches[k][3]) \o ","])
    \o Block("STATIONS",
             [k \in 1..Len(stations) |->
                "  " \o FmtNum(stations[k][1], stations[k][2], stations[k][3]) \o ","])

\* convert_level(level_name, level_data): what the call does.  A return
\* carries the lines of the returned text and the locals they are made from.
convert_level(name, data) ==
    IF MissingFields(data) # {}
    THEN [kind |-> "raise", exc |-> "KeyError"]
    ELSE
      LET board    == data.board
          mods     == data.mods
          mod_nums == data.mod_nums
          cars     == data.cars
          H        == Len(board)
          W        == IF H > 0 THEN Len(board[1]) ELSE 0
          target   == find_target(board)
      IN  IF target = None
          THEN [kind |-> "raise", exc |-> "ValueError"]
          ELSE IF CarsRaise(cars)
          THEN [kind |-> "raise", exc |-> "KeyError"]
          ELSE
            LET trains       == CarsOfType(cars, "NORMAL")
                decoys       == CarsOfType(cars, "DECOY")
                init_pos     == InitPos(board, mods)
                dswitches    == Dswitches(board, mods, mod_nums)
                tunnel_pairs == TunnelPairs(board, mods, mod_nums)
                gates        == Gates(mods, mod_nums)
                activations  == Activations(mods, mod_nums)
                stations     == Stations(mods, mod_nums)
            IN  [kind |-> "return",
                 target |-> target,
                 trains |-> trains,
                 decoys |-> decoys,
                 init_pos |-> init_pos,
                 dswitches |-> dswitches,
                 tunnel_pairs |-> tunnel_pairs,
                 gates |-> gates,
                 activations |-> activations,
                 stations |-> stations,
                 lines |-> DznLines(W, H, data.tracks, target, trains, decoys, init_pos,
                                    tunnel_pairs, gates, activations, dswitches, stations)]

-----------------------------------------------------------------------------
(* The level records of the documents of the batch runs.                   *)

LevelRecords ==
    { \* a target and a train
      [board |-> << <<3, 1>> >>, mods |-> << <<0, 0>> >>, mod_nums |-> << <<0, 0>> >>,
       cars |-> << [type |-> "NORMAL", pos |-> <<0, 1>>, direction |-> "LEFT"] >>,
       tracks |-> 2],
      \* a target below a closed gate
      [board |-> << <<1>>, <<3>> >>, mods |-> << <<3>>, <<0>> >>,
       mod_nums |-> << <<1>>, <<0>> >>, cars |-> <<>>, tracks |-> 1],
      \* no target
      [board |-> << <<1, 1>> >>, mods |-> << <<0, 0>> >>, mod_nums |-> << <<0, 0>> >>,
       cars |-> <<>>, tracks |-> 2],
      \* a car facing an unknown direction
      [board |-> << <<3>> >>, mods |-> << <<0>> >>, mod_nums |-> << <<0>> >>,
       cars |-> << [type |-> "NORMAL", pos |-> <<0, 0>>, direction |-> "NORTH"] >>,
       tracks |-> 1],
      \* no "cars" field
      [board |-> << <<3>> >>, mods |-> << <<0>> >>, mod_nums |-> << <<0>> >>,
       tracks |-> 1] }

\* dzn_content = convert_level(level_name, level_data), for the level records
\* above: the call's outcome does not depend on the name or on the run, so
\* it is computed once per record.
Converted == [data \in LevelRecords |-> convert_level(<<>>, data)]

-----------------------------------------------------------------------------
(* main: level names, their order and their output paths.                  *)

\* The code point of a character of the names used here.
Ord(ch) == CASE ch = "#" -> 35 [] ch = "-" -> 45 [] ch = "1" -> 49 [] ch = "2" -> 50

RECURSIVE StrLess(_, _)
\* a < b for Python strings.
StrLess(a, b) ==
    IF a = <<>> THEN b # <<>>
    ELSE IF b = <<>> THEN FALSE
    ELSE IF a[1] = b[1] THEN StrLess(Tail(a), Tail(b))
    ELSE Ord(a[1]) < Ord(b[1])

RECURSIVE SortedNames(_)
\* sorted(levels.items()): the names are distinct, so the names decide the order.
SortedNames(S) ==
    IF S = {} THEN <<>>
    ELSE LET m == CHOOSE x \in S : \A y \in S \ {x} : StrLess(x, y)
         IN  <<m>> \o SortedNames(S \ {m})

\* s.startswith(pre)
StartsWith(s, pre) == Len(pre) <= Len(s) /\ SubSeq(s, 1, Len(pre)) = pre

RECURSIVE World(_)
\* level_name.split("-")[0]
World(name) ==
    IF name = <<>> \/ name[1] = "-" THEN <<>> ELSE <<name[1]>> \o World(Tail(name))

\* base_output_dir / world / f"{level_name}.dzn"
OutputPath(name) == <<World(name), name>>

\* The loop's current item.
cur == order[idx]

InLoop == pc = "loop" /\ idx <= Len(order)

\* level_name.startswith("#")
IsDisabled(name) == StartsWith(name, <<"#">>)

\* args.level_prefix and not level_name.startswith(args.level_prefix)
PrefixMismatch(name) == level_prefix # <<>> /\ ~StartsWith(name, level_prefix)

\* A test that does not look at --force.
SkipsExistingIgnoringForce(path) == path \in DOMAIN fs

\* not args.force and output_path.exists()
SkipsExisting(path) == ~force /\ path \in DOMAIN fs

\* output_path.write_text(dzn_content)
WriteText(path, content) ==
    [q \in DOMAIN fs \cup {path} |-> IF q = path THEN content ELSE fs[q]]

-----------------------------------------------------------------------------
(* main: the body of the for loop, one action per way through it, and the  *)
(* summary after it.                                                       *)

\* A disabled level that is counted with the prefix mismatches.
SkipDisabledTallied ==
    /\ InLoop
    /\ IsDisabled(cur)
    /\ skipped_prefix' = skipped_prefix + 1
    /\ idx' = idx + 1
    /\ outcome' = [outcome EXCEPT ![cur] = "disabled"]
    /\ UNCHANGED <<level_name, level_data, ret, levels, order, force, level_prefix, fs, fs0,
                   dirs, converted, skipped_existing, stderr, pc>>

\* A disabled level: `continue` before anything is counted.
SkipDisabled ==
    /\ InLoop
    /\ IsDisabled(cur)
    /\ idx' = idx + 1
    /\ outcome' = [outcome EXCEPT ![cur] = "disabled"]
    /\ UNCHANGED <<level_name, level_data, ret, levels, order, force, level_prefix, fs, fs0,
                   dirs, converted, skipped_prefix, skipped_existing, stderr, pc>>

\* The prefix filter.
SkipPrefix ==
    /\ InLoop
    /\ ~IsDisabled(cur)
    /\ PrefixMismatch(cur)
    /\ skipped_prefix' = skipped_prefix + 1
    /\ idx' = idx + 1
    /\ outcome' = [outcome EXCEPT ![cur] = "prefix"]
    /\ UNCHANGED <<level_name, level_data, ret, levels, order, force, level_prefix, fs, fs0,
                   dirs, converted, skipped_existing, stderr, pc>>

\* The output exists and --force is not given.
SkipExisting ==
    /\ InLoop
    /\ ~IsDisabled(cur)
    /\ ~PrefixMismatch(cur)
    /\ dirs' = dirs \cup {World(cur)}
    /\ SkipsExisting(OutputPath(cur))
    /\ skipped_existing' = skipped_existing + 1
    /\ idx' = idx + 1
    /\ outcome' = [outcome EXCEPT ![cur] = "existing"]
    /\ UNCHANGED <<level_name, level_data, ret, levels, order, force, level_prefix, fs, fs0,
                   converted, skipped_prefix, stderr, pc>>

\* convert_level returns and the file is written.
ConvertAndWrite ==
    /\ InLoop
    /\ ~IsDisabled(cur)
    /\ ~PrefixMismatch(cur)
    /\ dirs' = dirs \cup {World(cur)}
    /\ ~SkipsExisting(OutputPath(cur))
    /\ LET r == Converted[levels[cur]]
       IN  /\ r.kind = "return"
           /\ level_name' = cur
           /\ level_data' = levels[cur]
           /\ ret' = r
           /\ fs' = WriteText(OutputPath(cur), r.lines)
    /\ converted' = converted + 1
    /\ idx' = idx + 1
    /\ outcome' = [outcome EXCEPT ![cur] = "converted"]
    /\ UNCHANGED <<levels, order, force, level_prefix, fs0, skipped_prefix, skipped_existing,
                   stderr, pc>>

\* convert_level raises and the exception leaves the loop.
ConvertErrorAborts ==
    /\ InLoop
    /\ ~IsDisabled(cur)
    /\ ~PrefixMismatch(cur)
    /\ dirs' = dirs \cup {World(cur)}
    /\ ~SkipsExisting(OutputPath(cur))
    /\ LET r == Converted[levels[cur]]
       IN  /\ r.kind = "raise"
           /\ level_name' = cur
           /\ level_data' = levels[cur]
           /\ ret' = r
           /\ stderr' = Append(stderr, <<cur, r.exc>>)
    /\ pc' = "aborted"
    /\ outcome' = [outcome EXCEPT ![cur] = "failed"]
    /\ UNCHANGED <<levels, order, force, level_prefix, fs, fs0, idx, converted, skipped_prefix,
                   skipped_existing>>

\* convert_level raises: `except Exception` reports it and the loop goes on.
ConvertError ==
    /\ InLoop
    /\ ~IsDisabled(cur)
    /\ ~PrefixMismatch(cur)
    /\ dirs' = dirs \cup {World(cur)}
    /\ ~SkipsExisting(OutputPath(cur))
    /\ LET r == Converted[levels[cur]]
       IN  /\ r.kind = "raise"
           /\ level_name' = cur
           /\ level_data' = levels[cur]
           /\ ret' = r
           /\ stderr' = Append(stderr, <<cur, r.exc>>)
    /\ idx' = idx + 1
    /\ outcome' = [outcome EXCEPT ![cur] = "failed"]
    /\ UNCHANGED <<levels, order, force, level_prefix, fs, fs0, converted, skipped_prefix,
                   skipped_existing, pc>>

\* After the loop: the summary is printed.
Summary ==
    /\ pc = "loop"
    /\ idx > Len(order)
    /\ pc' = "done"
    /\ UNCHANGED <<level_name, level_data, ret, levels, order, force, level_prefix, fs, fs0,
                   dirs, idx, converted, skipped_prefix, skipped_existing, stderr, outcome>>

Next == SkipDisabled \/ SkipPrefix \/ SkipExisting \/ ConvertAndWrite \/ ConvertError \/ Summary

-----------------------------------------------------------------------------
(* convert_level called on its own.                                        *)

CallReturns ==
    /\ pc = "call"
    /\ LET r == convert_level(level_name, level_data)
       IN  r.kind = "return" /\ ret' = r
    /\ pc' = "returned"
    /\ UNCHANGED <<level_name, level_data, levels, order, force, level_prefix, fs, fs0, dirs, idx,
                   converted, skipped_prefix, skipped_existing, stderr, outcome>>

CallRaises ==
    /\ pc = "call"
    /\ LET r == convert_level(level_name, level_data)
       IN  r.kind = "raise" /\ ret' = r
    /\ pc' = "raised"
    /\ UNCHANGED <<level_name, level_data, levels, order, force, level_prefix, fs, fs0, dirs, idx,
                   converted, skipped_prefix, skipped_existing, stderr, outcome>>

NextCall == CallReturns \/ CallRaises

-----------------------------------------------------------------------------
(* The inputs the model draws from.                                        *)

\* The most cells of a grid, for the grids of tunnels and for the others.
MaxTunnelCells == 5
MaxCells == 4
\* The most cars of a level and the most levels of a document.
MaxCars == 2
MaxLevels == 3

\* The shapes H x W of at most n cells, and the empty board.
Shapes(n) == {<<0, 0>>} \cup {s \in (1..n) \X (1..n) : s[1] * s[2] <= n}

\* The level whose cell k (in reading order) is of kind f[k] = <<board code,
\* modifier, modifier number>>: three rectangular grids of one shape.
GridLevel(s, f, cars) ==
    [board    |-> [r \in 1..s[1] |-> [c \in 1..s[2] |-> f[(r - 1) * s[2] + c][1]]],
     mods     |-> [r \in 1..s[1] |-> [c \in 1..s[2] |-> f[(r - 1) * s[2] + c][2]]],
     mod_nums |-> [r \in 1..s[1] |-> [c \in 1..s[2] |-> f[(r - 1) * s[2] + c][3]]],
     cars     |-> cars,
     tracks   |-> 3]

\* Target cells and tunnel mouths of two groups.
TunnelKinds == { <<3, 0, 0>>, <<17, 2, 1>>, <<18, 2, 1>>, <<19, 2, 2>>, <<20, 2, 2>> }

\* Three-way switches and other pieces under the swapping-track and
\* switch-rail modifiers, with positive, zero and negative numbers.
SwitchKinds == { <<3, 5, 1>>, <<9, 5, 2>>, <<9, 5, 0>>, <<12, 7, 1>>, <<12, 7, -1>>,
                 <<1, 7, 2>>, <<9, 0, 2>>, <<0, 5, 2>> }

\* Gates, switch triggers and a station, with positive, zero and negative numbers.
GateKinds == { <<3, 0, 0>>, <<1, 3, 0>>, <<1, 4, 2>>, <<1, 4, -1>>, <<1, 1, 2>>,
               <<1, 1, 0>>, <<1, 1, -1>>, <<1, 6, 1>> }

\* Mapped, null and unmapped board codes, with and without the tunnel modifier.
PieceKinds == { <<3, 0, 0>>, <<3, 2, 1>>, <<0, 0, 0>>, <<23, 0, 0>>, <<4, 0, 0>>,
                <<1, 2, 1>>, <<17, 2, 1>>, <<18, 2, 2>> }

\* Anomalous codes everywhere, for the cars.
OddKinds == { <<3, 0, 0>>, <<23, 9, -1>>, <<17, 5, 0>> }

CarKinds == { [type |-> t, pos |-> <<0, 0>>, direction |-> d]
              : t \in {"NORMAL", "DECOY", "GHOST"}, d \in {"RIGHT", "UP", "NORTH"} }

CarLists == UNION { [1..n -> CarKinds] : n \in 0..MaxCars }

\* convert_level is about to be called on a level of at most n cells of the
\* given kinds, with one of the given car lists.
InitCall(kinds, n, carlists) ==
    /\ level_name = <<"1", "-", "1">>
    /\ \E s \in Shapes(n) :
          \E f \in [1..(s[1] * s[2]) -> kinds] :
             \E cars \in carlists :
                level_data = GridLevel(s, f, cars)
    /\ ret = [kind |-> "none"]
    /\ levels = <<>>
    /\ order = <<>>
    /\ force = FALSE
    /\ level_prefix = <<>>
    /\ fs = <<>>
    /\ fs0 = <<>>
    /\ dirs = {}
    /\ idx = 0
    /\ converted = 0
    /\ skipped_prefix = 0
    /\ skipped_existing = 0
    /\ stderr = <<>>
    /\ outcome = <<>>
    /\ pc = "call"

InitTunnels == InitCall(TunnelKinds, MaxTunnelCells, {<<>>})
InitSwitches == InitCall(SwitchKinds, MaxCells, {<<>>})
InitGates == InitCall(GateKinds, MaxCells, {<<>>})
InitPieces == InitCall(PieceKinds, MaxCells, {<<>>})
InitCars == InitCall(OddKinds, MaxCells, CarLists)

SpecTunnels == InitTunnels /\ [][NextCall]_vars
SpecSwitches == InitSwitches /\ [][NextCall]_vars
SpecGates == InitGates /\ [][NextCall]_vars
SpecPieces == InitPieces /\ [][NextCall]_vars
SpecCars == InitCars /\ [][NextCall]_vars

\* The documents of the batch runs: level names and level records.
LevelNames == { <<"#", "1">>, <<"1", "-", "1">>, <<"1", "-", "2">>, <<"2", "-", "1">> }

Prefixes == { <<>>, <<"1">>, <<"#">> }

\* What an output file holds before the run, when it exists.
OldContent == << "W=9;" >>

Documents ==
    UNION { [names -> LevelRecords]
            : names \in {S \in SUBSET LevelNames : Cardinality(S) <= MaxLevels} }

Init ==
    /\ level_name = <<>>
    /\ level_data = <<>>
    /\ ret = [kind |-> "none"]
    /\ levels \in Documents
    /\ order = SortedNames(DOMAIN levels)
    /\ force \in BOOLEAN
    /\ level_prefix \in Prefixes
    /\ \E existing \in SUBSET (DOMAIN levels) :
          /\ fs = [q \in {OutputPath(n) : n \in existing} |-> OldContent]
          /\ dirs = {World(n) : n \in existing}
    /\ fs0 = fs
    /\ idx = 1
    /\ converted = 0
    /\ skipped_prefix = 0
    /\ skipped_existing = 0
    /\ stderr = <<>>
    /\ outcome = [n \in DOMAIN levels |-> "pending"]
    /\ pc = "loop"

Spec == Init /\ [][Next]_vars

\* The interpreter runs the loop on: a step that can be taken is taken.
SpecLive == Init /\ [][Next]_vars /\ WF_vars(Next)

-----------------------------------------------------------------------------
(* What the properties below are stated with: the cells of a grid as a set *)
(* and reading order as a relation, so that no property is stated with the *)
(* scans it is about.                                                      *)

PositionsOf(grid) == UNION { { <<r - 1, c - 1>> : c \in 1..Len(grid[r]) } : r \in 1..Len(grid) }

\* p comes before q in row-major order.
Before(p, q) == p[1] < q[1] \/ (p[1] = q[1] /\ p[2] < q[2])

\* The position a 1-based record names.
PosOf(rec) == <<rec[1] - 1, rec[2] - 1>>

\* The records of a list, as indices, that name position p.
RecordsAt(list, p) == {k \in 1..Len(list) : PosOf(list[k]) = p}

\* The list names its positions in strictly ascending row-major order.
InReadingOrder(list) ==
    \A k, l \in 1..Len(list) : k < l => Before(PosOf(list[k]), PosOf(list[l]))

HasEndingCell(board) == \E p \in PositionsOf(board) : At(board, p) = 3

\* Line `first` directly follows line `header`.
Follows(lines, header, first) ==
    \E k \in 1..(Len(lines) - 1) : lines[k] = header /\ lines[k + 1] = first

-----------------------------------------------------------------------------
(* C3: when convert_level returns, TARGET is (r+1, c+1) for the first cell *)
(* (r, c) with code 3 in row-major order (rows top to bottom, columns left *)
(* to right), in the returned locals and in the TARGET line of the text;   *)
(* later cells with code 3 never change it.                                *)
C3_TargetIsFirstEndingCell ==
    pc = "returned" =>
        \E p \in PositionsOf(level_data.board) :
            /\ At(level_data.board, p) = 3
            /\ \A q \in PositionsOf(level_data.board) :
                  At(level_data.board, q) = 3 => ~Before(q, p)
            /\ ret.target = <<p[1] + 1, p[2] + 1>>
            /\ ret.lines[7] = "TARGET=(" \o ToString(p[1] + 1) \o "," \o ToString(p[2] + 1) \o ");"

\* A 2 x 2 board with code 3 at (0,1) and at (1,0) and not at (0,0) has been converted.
C3_Witness ==
    /\ pc = "returned"
    /\ Len(level_data.board) = 2
    /\ Len(level_data.board[1]) = 2
    /\ level_data.board[1][1] # 3
    /\ level_data.board[1][2] = 3
    /\ level_data.board[2][1] = 3
    /\ ret.target = <<1, 2>>

-----------------------------------------------------------------------------
(* C4.  The mouths of tunnel group g are the cells with modifier 2, a      *)
(* board code in 17..20 and modifier number g.                             *)

Mouths(data, g) ==
    {p \in PositionsOf(data.board) :
        At(data.mods, p) = 2 /\ At(data.board, p) \in 17..20 /\ At(data.mod_nums, p) = g}

GroupIds(data) ==
    {At(data.mod_nums, p) : p \in {q \in PositionsOf(data.board) :
                                     At(data.mods, q) = 2 /\ At(data.board, q) \in 17..20}}

ExitOf(code) ==
    CASE code = 17 -> "LEFT" [] code = 18 -> "RIGHT" [] code = 19 -> "DOWN" [] code = 20 -> "TOP"

\* The record of mouths p, q: with each mouth's own exit direction, or swapped.
ExpectedPair(data, p, q, swapped) ==
    <<p[1] + 1, p[2] + 1,
      ExitOf(At(data.board, IF swapped THEN q ELSE p)),
      q[1] + 1, q[2] + 1,
      ExitOf(At(data.board, IF swapped THEN p ELSE q))>>

\* The records that name a mouth of group g, at either end.
RecordsOfGroup(data, pairs, g) ==
    {k \in 1..Len(pairs) :
        <<pairs[k][1] - 1, pairs[k][2] - 1>> \in Mouths(data, g)
        \/ <<pairs[k][4] - 1, pairs[k][5] - 1>> \in Mouths(data, g)}

TunnelPairsAre(data, pairs, swapped) ==
    /\ \A g \in GroupIds(data) :
          IF Cardinality(Mouths(data, g)) = 2
          THEN /\ Cardinality(RecordsOfGroup(data, pairs, g)) = 1
               /\ \E p, q \in Mouths(data, g) :
                     /\ Before(p, q)
                     /\ \E k \in 1..Len(pairs) : pairs[k] = ExpectedPair(data, p, q, swapped)
          ELSE RecordsOfGroup(data, pairs, g) = {}
    /\ \A k \in 1..Len(pairs) : \E g \in GroupIds(data) : k \in RecordsOfGroup(data, pairs, g)
    /\ \A k, l \in 1..Len(pairs) :
          k < l => At(data.mod_nums, PosOf(pairs[k])) < At(data.mod_nums, PosOf(pairs[l]))

(* C4 as stated: a group of exactly 2 mouths yields exactly 1 record       *)
(* (pos1, d1, pos2, d2), pos1 before pos2 in row-major order, with d1 the  *)
(* exit direction of mouth 2's code and d2 that of mouth 1's code; a group *)
(* of 1 or of 3 or more mouths yields none; records ascend by group ID.    *)
C4_DirectionsSwapped ==
    pc = "returned" => TunnelPairsAre(level_data, ret.tunnel_pairs, TRUE)

(* C4 as amended: the same, with d1 the exit direction of mouth 1's own    *)
(* board code and d2 that of mouth 2's own board code.                     *)
C4_DirectionsOwn ==
    pc = "returned" => TunnelPairsAre(level_data, ret.tunnel_pairs, FALSE)

\* Two groups of two mouths each have been paired, group 2's first mouth
\* coming before group 1's in the scan, and the mouths of a pair differ.
C4_Witness ==
    /\ pc = "returned"
    /\ Len(ret.tunnel_pairs) = 2
    /\ Before(PosOf(ret.tunnel_pairs[2]), PosOf(ret.tunnel_pairs[1]))
    /\ ret.tunnel_pairs[1][3] # ret.tunnel_pairs[1][6]

-----------------------------------------------------------------------------
(* C6: a level record with the five fields, rectangular grids of one shape *)
(* and a cell with code 3 is converted without failure, whatever its codes,*)
(* modifiers, numbers and cars' types and directions are.                  *)
C6_OnlyHardErrorIsNoTarget ==
    (pc \in {"returned", "raised"} /\ MissingFields(level_data) = {}
        /\ HasEndingCell(level_data.board))
    => ret.kind = "return"

-----------------------------------------------------------------------------
(* C7: when convert_level returns, every cell (r, c) with board code 9..16 *)
(* and modifier 5 or 7 has exactly one INIT_POS entry, (r+1, c+1, token)   *)
(* with the SWITCH_ prefix replaced by DSWITCH_ (modifier 5) or ESWITCH_   *)
(* (modifier 7), and has the DSWITCHES entry (r+1, c+1, mod_num) if and    *)
(* only if mod_num > 0; a cell with modifier 5 or 7 whose token is not a   *)
(* SWITCH_ token is placed with its token unchanged and has no DSWITCHES   *)
(* entry.  Code 9, modifier 5, number 2 at (0,0) gives the text lines      *)
(* (1,1,DSWITCH_L_R_D) and (1,1,2).                                        *)
C7_StatefulSwitches ==
    pc = "returned" =>
        /\ \A p \in PositionsOf(level_data.board) :
              LET code == At(level_data.board, p)
                  mod  == At(level_data.mods, p)
                  num  == At(level_data.mod_nums, p)
                  at   == RecordsAt(ret.init_pos, p)
                  reg  == RecordsAt(ret.dswitches, p)
              IN  (mod \in {5, 7} /\ code \in DOMAIN BOARD_TO_TRACK
                                  /\ BOARD_TO_TRACK[code] # None) =>
                    IF code \in 9..16
                    THEN /\ Cardinality(at) = 1
                         /\ \A k \in at :
                               ret.init_pos[k][3] =
                                   <<IF mod = 5 THEN "DSWITCH_" ELSE "ESWITCH_",
                                     BOARD_TO_TRACK[code][2]>>
                         /\ IF num > 0
                            THEN /\ Cardinality(reg) = 1
                                 /\ \A k \in reg : ret.dswitches[k] = <<p[1] + 1, p[2] + 1, num>>
                            ELSE reg = {}
                    ELSE /\ Cardinality(at) = 1
                         /\ \A k \in at : ret.init_pos[k][3] = BOARD_TO_TRACK[code]
                         /\ reg = {}
        /\ (/\ level_data.board[1][1] = 9
            /\ level_data.mods[1][1] = 5
            /\ level_data.mod_nums[1][1] = 2)
           => /\ Follows(ret.lines, "INIT_POS=[", "(1,1,DSWITCH_L_R_D),")
              /\ Follows(ret.lines, "DSWITCHES=[", "(1,1,2),")

\* The example cell, a switch-rail switch with a negative number and a plain
\* track under the switch-rail modifier have been converted together.
C7_Witness ==
    /\ pc = "returned"
    /\ level_data.board[1][1] = 9
    /\ level_data.mods[1][1] = 5
    /\ level_data.mod_nums[1][1] = 2
    /\ \E p, q \in PositionsOf(level_data.board) :
          /\ At(level_data.board, p) = 12
          /\ At(level_data.mods, p) = 7
          /\ At(level_data.mod_nums, p) = -1
          /\ At(level_data.board, q) = 1
          /\ At(level_data.mods, q) = 7
    /\ Len(ret.dswitches) = 1

-----------------------------------------------------------------------------
(* C8: when convert_level returns, GATES is, in row-major order, one       *)
(* record (r+1, c+1, mod_num, flag) for every cell with modifier 3 or 4,   *)
(* flag "true" for modifier 4 and "false" for modifier 3, whatever the     *)
(* number; ACTIVATIONS is, in row-major order, one record (r+1, c+1,       *)
(* mod_num) for every cell with modifier 1 and mod_num > 0; no other cell  *)
(* contributes to either.                                                  *)
C8_GatesAndActivations ==
    pc = "returned" =>
        LET cells    == PositionsOf(level_data.mods)
            gated    == {p \in cells : At(level_data.mods, p) \in {3, 4}}
            triggers == {p \in cells : At(level_data.mods, p) = 1
                                        /\ At(level_data.mod_nums, p) > 0}
        IN  /\ Len(ret.gates) = Cardinality(gated)
            /\ InReadingOrder(ret.gates)
            /\ \A p \in gated :
                  \E k \in 1..Len(ret.gates) :
                      ret.gates[k] = <<p[1] + 1, p[2] + 1, At(level_data.mod_nums, p),
                                       IF At(level_data.mods, p) = 4 THEN "true" ELSE "false">>
            /\ Len(ret.activations) = Cardinality(triggers)
            /\ InReadingOrder(ret.activations)
            /\ \A p \in triggers :
                  \E k \in 1..Len(ret.activations) :
                      ret.activations[k] = <<p[1] + 1, p[2] + 1, At(level_data.mod_nums, p)>>

\* An open gate with a negative number at (0,1), a closed gate with number
\* zero at (1,0) and a trigger at (1,1) have been converted.
C8_Witness ==
    /\ pc = "returned"
    /\ ret.gates = << <<1, 2, -1, "true">>, <<2, 1, 0, "false">> >>
    /\ ret.activations = << <<2, 2, 2>> >>

-----------------------------------------------------------------------------
(* C9: when convert_level returns, INIT_POS is exactly the row-major list  *)
(* of the cells whose modifier is not 2 and whose board code has a non-null*)
(* entry in BOARD_TO_TRACK, one entry per such cell; so no cell with       *)
(* modifier 2, with code 0 or with an unmapped code is in it, and a cell   *)
(* with modifier 2 whose code is not in 17..20 or whose group is not a     *)
(* pair is in neither INIT_POS nor TUNNEL_PAIRS.                           *)
C9_InitPosCells ==
    pc = "returned" =>
        LET cells  == PositionsOf(level_data.board)
            placed == {p \in cells :
                          /\ At(level_data.mods, p) # 2
                          /\ At(level_data.board, p) \in DOMAIN BOARD_TO_TRACK
                          /\ BOARD_TO_TRACK[At(level_data.board, p)] # None}
        IN  /\ Len(ret.init_pos) = Cardinality(placed)
            /\ InReadingOrder(ret.init_pos)
            /\ \A k \in 1..Len(ret.init_pos) : PosOf(ret.init_pos[k]) \in placed
            /\ \A p \in cells :
                  (/\ At(level_data.mods, p) = 2
                   /\ \/ At(level_data.board, p) \notin 17..20
                      \/ Cardinality(Mouths(level_data, At(level_data.mod_nums, p))) # 2)
                  => /\ RecordsAt(ret.init_pos, p) = {}
                     /\ \A k \in 1..Len(ret.tunnel_pairs) :
                           /\ <<ret.tunnel_pairs[k][1] - 1, ret.tunnel_pairs[k][2] - 1>> # p
                           /\ <<ret.tunnel_pairs[k][4] - 1, ret.tunnel_pairs[k][5] - 1>> # p

\* A plain track under the tunnel modifier, a lone tunnel mouth and an
\* unmapped code have been converted with one placed cell.
C9_Witness ==
    /\ pc = "returned"
    /\ \E p, q, u \in PositionsOf(level_data.board) :
          /\ At(level_data.board, p) = 1 /\ At(level_data.mods, p) = 2
          /\ At(level_data.board, q) = 17 /\ At(level_data.mods, q) = 2
          /\ At(level_data.board, u) = 23
    /\ Len(ret.init_pos) = 1
    /\ ret.tunnel_pairs = <<>>

-----------------------------------------------------------------------------
(* The batch run: what the properties below are stated with.               *)

\* The file at the level's output path is what it was before the run.
Untouched(n) ==
    /\ OutputPath(n) \in DOMAIN fs <=> OutputPath(n) \in DOMAIN fs0
    /\ OutputPath(n) \in DOMAIN fs => fs[OutputPath(n)] = fs0[OutputPath(n)]

ExistedBefore(n) == OutputPath(n) \in DOMAIN fs0

Hash(n) == n # <<>> /\ n[1] = "#"

MatchesPrefix(n) ==
    Len(level_prefix) <= Len(n) /\ \A k \in 1..Len(level_prefix) : n[k] = level_prefix[k]

\* The level's file holds the text convert_level returns for it.
HoldsFreshConversion(n) ==
    /\ convert_level(n, levels[n]).kind = "return"
    /\ OutputPath(n) \in DOMAIN fs
    /\ fs[OutputPath(n)] = convert_level(n, levels[n]).lines

Count(how) == Cardinality({n \in DOMAIN levels : outcome[n] = how})

-----------------------------------------------------------------------------
(* C1: for every level whose board has no cell with code 3, convert_level  *)
(* raises, and at every point of the run the file at the level's output    *)
(* path is what it was before the run (absent if it was absent), with or   *)
(* without --force.                                                        *)
C1_NoTargetNoOutput ==
    \A n \in DOMAIN levels :
        ("board" \in DOMAIN levels[n] /\ ~HasEndingCell(levels[n].board)) =>
            /\ convert_level(n, levels[n]).kind = "raise"
            /\ Untouched(n)

\* A forced run has ended in which a level without target, whose output
\* existed, was tried and failed.
C1_Witness ==
    /\ pc = "done"
    /\ force
    /\ \E n \in DOMAIN levels :
          /\ ~HasEndingCell(levels[n].board)
          /\ ExistedBefore(n)
          /\ outcome[n] = "failed"

-----------------------------------------------------------------------------
(* C2: a level's failure never ends the run: the loop is never left other  *)
(* than to the summary, every run reaches the summary, and at the          *)
(* summary every level that comes after a failed one in the sorted order,  *)
(* is not disabled, matches the prefix filter, is not skipped as existing  *)
(* and converts, has been written with the text convert_level returns for  *)
(* it.                                                                     *)
LaterLevelsWritten ==
    /\ pc \in {"loop", "done"}
    /\ pc = "done" =>
          \A f, n \in DOMAIN levels :
              (/\ outcome[f] = "failed"
               /\ StrLess(f, n)
               /\ ~Hash(n)
               /\ level_prefix # <<>> => MatchesPrefix(n)
               /\ force \/ ~ExistedBefore(n)
               /\ convert_level(n, levels[n]).kind = "return")
              => /\ HoldsFreshConversion(n)
                 /\ outcome[n] = "converted"

C2_FailureDoesNotAbort == []LaterLevelsWritten /\ <>(pc = "done")

\* A run has ended in which a level failed and a later one was converted.
C2_Witness ==
    /\ pc = "done"
    /\ \E f, n \in DOMAIN levels :
          /\ outcome[f] = "failed"
          /\ StrLess(f, n)
          /\ outcome[n] = "converted"
          /\ HoldsFreshConversion(n)

-----------------------------------------------------------------------------
(* C5 as stated: at the end of a run with --force every level that is not  *)
(* disabled, matches the prefix filter and whose output existed holds its  *)
(* fresh conversion; at the end of a run without --force every output file *)
(* that existed is unchanged and its level is counted in skipped_existing  *)
(* and not in converted.                                                   *)
C5_ForceOverwritesAll ==
    pc = "done" =>
        /\ skipped_existing = Count("existing")
        /\ converted = Count("converted")
        /\ force =>
              \A n \in DOMAIN levels :
                  (~Hash(n) /\ (level_prefix # <<>> => MatchesPrefix(n)) /\ ExistedBefore(n))
                  => HoldsFreshConversion(n)
        /\ ~force =>
              \A n \in DOMAIN levels :
                  ExistedBefore(n) => Untouched(n) /\ outcome[n] = "existing"

(* C5 as amended: with --force every such level whose conversion succeeds  *)
(* holds its fresh conversion, and one whose conversion fails keeps its    *)
(* file unchanged; without --force every output file that existed is       *)
(* unchanged, and each level that is not disabled, matches the prefix      *)
(* filter and whose output existed is counted in skipped_existing and not  *)
(* in converted.                                                           *)
C5_ForceOverwritesConverted ==
    pc = "done" =>
        /\ skipped_existing = Count("existing")
        /\ converted = Count("converted")
        /\ force =>
              \A n \in DOMAIN levels :
                  (~Hash(n) /\ (level_prefix # <<>> => MatchesPrefix(n)) /\ ExistedBefore(n))
                  => IF convert_level(n, levels[n]).kind = "return"
                     THEN HoldsFreshConversion(n)
                     ELSE Untouched(n)
        /\ ~force =>
              \A n \in DOMAIN levels :
                  ExistedBefore(n) =>
                      /\ Untouched(n)
                      /\ (~Hash(n) /\ (level_prefix # <<>> => MatchesPrefix(n)))
                         => outcome[n] = "existing"

\* A forced run has ended in which an existing output was overwritten.
C5_Witness ==
    /\ pc = "done"
    /\ force
    /\ \E n \in DOMAIN levels :
          /\ ExistedBefore(n)
          /\ outcome[n] = "converted"
          /\ fs[OutputPath(n)] # fs0[OutputPath(n)]

-----------------------------------------------------------------------------
(* C10: every level name is handled in one of five ways, decided in this   *)
(* order: a name starting with "#" is skipped and counted nowhere; a name  *)
(* not matching the prefix filter counts in skipped_prefix only; a level   *)
(* whose output exists, without --force, counts in skipped_existing only;  *)
(* a level that converts is written and counts in converted only; a level  *)
(* that fails counts nowhere.  At the end converted + skipped_prefix +     *)
(* skipped_existing + the number of failed levels is the number of names   *)
(* not starting with "#", and converted is the number of files written.    *)
HandledAs(n) ==
    IF Hash(n) THEN "disabled"
    ELSE IF level_prefix # <<>> /\ ~MatchesPrefix(n) THEN "prefix"
    ELSE IF ~force /\ ExistedBefore(n) THEN "existing"
    ELSE IF convert_level(n, levels[n]).kind = "return" THEN "converted"
    ELSE "failed"

C10_TallyPartition ==
    /\ \A n \in DOMAIN levels : outcome[n] \in {"pending", HandledAs(n)}
    /\ skipped_prefix = Count("prefix")
    /\ skipped_existing = Count("existing")
    /\ converted = Count("converted")
    /\ Len(stderr) = Count("failed")
    /\ \A n \in DOMAIN levels : outcome[n] # "converted" => Untouched(n)
    /\ pc = "done" =>
          /\ Count("pending") = 0
          /\ converted + skipped_prefix + skipped_existing + Len(stderr)
                = Cardinality({n \in DOMAIN levels : ~Hash(n)})
          /\ converted = Cardinality({n \in DOMAIN levels : ~Untouched(n)})

\* A run under a prefix filter has ended with a disabled level that matches
\* the prefix, a converted level and a failed one.
C10_Witness ==
    /\ pc = "done"
    /\ level_prefix = <<"#">>
    /\ Count("disabled") = 1
    /\ Count("prefix") = 2

=============================================================================
